---- MODULE Spec2Model ----
(***************************************************************************)
(* Model of the translation system: the markup codec (preprocessText,      *)
(* postprocessText), the recursive walk translateNestedJson with its       *)
(* concurrent sequence branches, the client call translateText, the        *)
(* /api/translate route and the handler processTranslations.               *)
(*                                                                         *)
(* A JavaScript string is a sequence of atoms.  An atom is a piece of text *)
(* that the program's patterns treat as a unit: a tag such as "<b>", one   *)
(* character such as "$" or "{", or a whole uuid.  No atom ends or starts  *)
(* with part of another pattern literal, so pattern matching on atoms is   *)
(* pattern matching on the text they spell.                                *)
(*                                                                         *)
(* Spec runs processTranslations on one input document; SpecCodec runs the *)
(* codec alone on every string up to MaxLen atoms; FairSpec is Spec with   *)
(* the event loop's fairness: a ready continuation runs, a fetch settles.  *)
(***************************************************************************)
EXTENDS Integers, Sequences, FiniteSets, TLC

VARIABLES
    s,              \* codec: the string handed to preprocessText
    enc,            \* codec: what preprocessText returned
    reply,          \* codec: what the translation step returned
    restored,       \* codec: what postprocessText returned
    cphase,         \* codec: position in encode -> translate -> decode
    inputJson,      \* useState inputJson: the text, as the value it spells
    outputJson,     \* useState outputJson: the text, as the value it spells
    targetLanguage, \* useState targetLanguage
    error,          \* useState error
    isProcessing,   \* useState isProcessing
    projectId,      \* process.env.GOOGLE_CLOUD_PROJECT_ID of the route
    phase,          \* where processTranslations stands
    frames,         \* the activations of translateNestedJson, by position
    nextId,         \* how many uuids have been drawn, plus one
    settled,        \* the activations that returned, in the order they did
    calls,          \* the invocations of translateText made by the walk
    outcome,        \* how each settled invocation of translateText ended
    visits          \* how often the loop body ran for each position

cvars == <<s, enc, reply, restored, cphase>>

wvars == <<inputJson, outputJson, targetLanguage, error, isProcessing, projectId,
           phase, frames, nextId, settled, calls, outcome, visits>>

vars == <<cvars, wvars>>

(***************************************************************************)
(* Bounds.                                                                 *)
(***************************************************************************)
MaxLen == 4
MaxElems == 2
VisitCap == 2

Alphabet == {"x", "$", "{", "}", "&", "<b>", "</b>", "<i>", "</i>"}

(***************************************************************************)
(* Text helpers.                                                           *)
(***************************************************************************)
MinOf(S) == CHOOSE m \in S : \A n \in S : m <= n

Last(q)  == q[Len(q)]
Front(q) == SubSeq(q, 1, Len(q) - 1)

\* lit occurs in t at position q
IsAt(t, lit, q) ==
    /\ q >= 1
    /\ q + Len(lit) - 1 <= Len(t)
    /\ SubSeq(t, q, q + Len(lit) - 1) = lit

\* String.prototype.indexOf(lit, from), 1-based; 0 when lit does not occur
IndexOf(t, lit, from) ==
    LET S == {q \in from..Len(t) : IsAt(t, lit, q)}
    IN  IF S = {} THEN 0 ELSE MinOf(S)

\* "." of a regular expression matches no line terminator
NoNewline(t, a, b) == \A q \in a..b : t[q] # "\n"

\* uuidv4(): the n-th identifier drawn; a uuid is one atom, unlike any other
uuidv4(n) == ToString(n)

\* `{{${id}}}`
Token(id) == <<"{", "{", id, "}", "}">>

(***************************************************************************)
(* The four patterns of preprocessText, each the sequence of its literals; *)
(* a lazy group (.*?) stands between consecutive literals.                 *)
(***************************************************************************)
BoldPattern   == << <<"<b>">>, <<"</b>">> >>
ItalicPattern == << <<"<i>">>, <<"</i>">> >>
LinkPattern   == << <<"<a href=\"">>, <<"\">">>, <<"</a>">> >>
VarPattern    == << <<"$", "{">>, <<"}">> >>

\* The literals n.. of a pattern, each after a lazy group that starts at q:
\* the position of the match's last atom, 0 when there is no match.
RECURSIVE MatchRest(_, _, _, _)
MatchRest(t, lits, n, q) ==
    IF n > Len(lits) THEN q - 1
    ELSE LET c == IndexOf(t, lits[n], q)
         IN  IF c = 0 \/ ~NoNewline(t, q, c - 1) THEN 0
             ELSE MatchRest(t, lits, n + 1, c + Len(lits[n]))

\* The match of the pattern that starts exactly at i (its end, or 0).
MatchEnd(t, lits, i) ==
    IF IsAt(t, lits[1], i) THEN MatchRest(t, lits, 2, i + Len(lits[1])) ELSE 0

\* text.replace(/pattern/g, callback): every non-overlapping match, left to
\* right, becomes a token; the callback records id -> matched fragment.
RECURSIVE ReplaceAll(_, _, _, _)
ReplaceAll(t, lits, pos, acc) ==
    IF pos > Len(t) THEN acc
    ELSE LET e == MatchEnd(t, lits, pos)
         IN  IF e = 0
             THEN ReplaceAll(t, lits, pos + 1,
                             [acc EXCEPT !.text = Append(@, t[pos])])
             ELSE LET id == uuidv4(acc.id)
                  IN  ReplaceAll(t, lits, e + 1,
                          [text |-> acc.text \o Token(id),
                           placeholders |->
                               Append(acc.placeholders, <<id, SubSeq(t, pos, e)>>),
                           id |-> acc.id + 1])

\* one replace pass over the text of each result in R
ReplacePass(R, lits) ==
    {ReplaceAll(r.text, lits, 1,
                [text |-> <<>>, placeholders |-> r.placeholders, id |-> r.id]) :
        r \in R}

\* preprocessText(text); id0 is the number of the next uuid to be drawn.
\* placeholders is the Record in insertion order, as Object.entries reads it.
\* The passes run one after the other, each on the result of the one before.
preprocessText(text, id0) ==
    LET r0 == {[text |-> text, placeholders |-> <<>>, id |-> id0]}
        r1 == ReplacePass(r0, BoldPattern)
        r2 == ReplacePass(r1, ItalicPattern)
        r3 == ReplacePass(r2, LinkPattern)
    IN  CHOOSE r \in ReplacePass(r3, VarPattern) : TRUE

\* GetSubstitution of String.prototype.replace for a string pattern (no
\* captures): $$ -> $, $& -> the match, $ and a backtick -> what precedes
\* it, $' -> what follows it; any other $ stays.  The atom "BACKTICK" spells
\* the backtick character.
RECURSIVE GetSubstitution(_, _, _, _, _)
GetSubstitution(repl, q, matched, before, after) ==
    IF q > Len(repl) THEN <<>>
    ELSE IF repl[q] = "$" /\ q < Len(repl) /\ repl[q + 1] \in {"$", "&", "BACKTICK", "'"}
         THEN (CASE repl[q + 1] = "$" -> <<"$">>
                 [] repl[q + 1] = "&" -> matched
                 [] repl[q + 1] = "BACKTICK" -> before
                 [] OTHER -> after)
              \o GetSubstitution(repl, q + 2, matched, before, after)
         ELSE <<repl[q]>> \o GetSubstitution(repl, q + 1, matched, before, after)

\* text.replace(pat, repl) with a string pattern: the first occurrence only
ReplaceFirst(t, pat, repl) ==
    LET c == IndexOf(t, pat, 1)
    IN  IF c = 0 THEN t
        ELSE LET before == SubSeq(t, 1, c - 1)
                 after  == SubSeq(t, c + Len(pat), Len(t))
             IN  before \o GetSubstitution(repl, 1, pat, before, after) \o after

\* The loop of postprocessText over the pairs order[n..] of the placeholders
RECURSIVE RestoreFrom(_, _, _, _)
RestoreFrom(text, placeholders, order, n) ==
    IF n > Len(order) THEN text
    ELSE LET pair == placeholders[order[n]]
         IN  CHOOSE r \in {RestoreFrom(next, placeholders, order, n + 1) :
                              next \in {ReplaceFirst(text, Token(pair[1]), pair[2])}} :
                 TRUE

\* postprocessText(text, placeholders): Object.entries gives insertion order
postprocessText(text, placeholders) ==
    RestoreFrom(text, placeholders, [n \in 1..Len(placeholders) |-> n], 1)

NoEnc == [text |-> <<>>, placeholders |-> <<>>, id |-> 1]

(***************************************************************************)
(* JSON values.  Every value is a record of the same shape: k is its kind, *)
(* keys and vals hold a mapping's entries (vals alone, a sequence's        *)
(* elements) and s a string's atoms.  Kind "invalid" is a text JSON.parse  *)
(* rejects, kind "none" the empty text "" of outputJson.                   *)
(***************************************************************************)
Str(t)          == [k |-> "str", keys |-> <<>>, vals |-> <<>>, s |-> t]
Num             == [k |-> "num", keys |-> <<>>, vals |-> <<>>, s |-> <<"5">>]
Bool            == [k |-> "bool", keys |-> <<>>, vals |-> <<>>, s |-> <<"true">>]
Null            == [k |-> "null", keys |-> <<>>, vals |-> <<>>, s |-> <<>>]
Obj(keys, vals) == [k |-> "obj", keys |-> keys, vals |-> vals, s |-> <<>>]
Arr(vals)       == [k |-> "arr", keys |-> <<>>, vals |-> vals, s |-> <<>>]
Invalid         == [k |-> "invalid", keys |-> <<>>, vals |-> <<>>, s |-> <<>>]
NoOutput        == [k |-> "none", keys |-> <<>>, vals |-> <<>>, s |-> <<>>]

\* typeof v === "object" && v !== null
IsObject(v) == v.k \in {"obj", "arr"}

\* Object.entries(v) for a value other than null: a mapping's entries, a
\* sequence's elements under their indices, a string's characters under
\* theirs, nothing for a number or a boolean.
Entries(v) ==
    CASE v.k = "obj" -> [keys |-> v.keys, vals |-> v.vals]
      [] v.k = "arr" -> [keys |-> [j \in 1..Len(v.vals) |-> ToString(j - 1)],
                         vals |-> v.vals]
      [] v.k = "str" -> [keys |-> [j \in 1..Len(v.s) |-> ToString(j - 1)],
                         vals |-> [j \in 1..Len(v.s) |-> Str(<<v.s[j]>>)]]
      [] OTHER -> [keys |-> <<>>, vals |-> <<>>]

HasKey(v, key) == \E j \in 1..Len(Entries(v).keys) : Entries(v).keys[j] = key

\* v[key]
Child(v, key) ==
    LET e == Entries(v)
    IN  e.vals[CHOOSE j \in 1..Len(e.keys) : e.keys[j] = key]

RECURSIVE HasPath(_, _)
HasPath(v, p) ==
    \/ p = <<>>
    \/ HasKey(v, Head(p)) /\ HasPath(Child(v, Head(p)), Tail(p))

RECURSIVE NodeAt(_, _)
NodeAt(v, p) == IF p = <<>> THEN v ELSE NodeAt(Child(v, Head(p)), Tail(p))

\* translatedData[key] = v
Put(o, key, v) ==
    IF \E j \in 1..Len(o.keys) : o.keys[j] = key
    THEN LET j == CHOOSE n \in 1..Len(o.keys) : o.keys[n] = key
         IN  [o EXCEPT !.vals[j] = v]
    ELSE [o EXCEPT !.keys = Append(@, key), !.vals = Append(@, v)]

(***************************************************************************)
(* The route POST /api/translate and the provider behind it.               *)
(***************************************************************************)
\* What translationClient.translateText may do with a request.
ProviderOutcomes == {"intact", "lost", "empty", "none", "throws"}

\* What fetch may do: reach the route, or fail on the network.
FetchOutcomes == ProviderOutcomes \cup {"offline"}

\* The provider's reply: the prose translated (the language's tag put in
\* front) with the tokens kept or lost, an empty text, no translation.
Provider(text, lang, g) ==
    CASE g = "intact" -> <<<<lang>> \o text>>
      [] g = "lost"   -> <<<<lang>>>>
      [] g = "empty"  -> <<<<>>>>
      [] OTHER        -> <<>>

POST(text, lang, g) ==
    IF text = <<>> \/ lang = ""
    THEN [status |-> 400, translatedText |-> <<>>]
    ELSE IF projectId = ""
    THEN [status |-> 500, translatedText |-> <<>>]
    ELSE IF g = "throws"
    THEN [status |-> 500, translatedText |-> <<>>]
    ELSE LET translations == Provider(text, lang, g)
         IN  IF Len(translations) = 0
             THEN [status |-> 500, translatedText |-> <<>>]
             ELSE IF translations[1] = <<>>
             THEN [status |-> 500, translatedText |-> <<>>]
             ELSE [status |-> 200, translatedText |-> translations[1]]

\* translateText refuses an empty text or language before it fetches
Refused(text, lang) == text = <<>> \/ lang = ""

\* translateText once fetch has settled: the text returned, or a throw
translateText(text, lang, g) ==
    IF g = "offline" THEN [ok |-> FALSE, text |-> <<>>]
    ELSE LET response == POST(text, lang, g)
         IN  IF response.status # 200
             THEN [ok |-> FALSE, text |-> <<>>]
             ELSE [ok |-> TRUE, text |-> response.translatedText]

(***************************************************************************)
(* translateNestedJson.  An activation (frame) is known by the position of *)
(* the value it walks: the keys and indices that lead to it from the root. *)
(***************************************************************************)
\* the activation translateNestedJson(data, targetLanguage) as it starts
NewFrame(data) == [data |-> data, i |-> 1, st |-> "run", out |-> Obj(<<>>, <<>>),
                   txt |-> <<>>, ph |-> <<>>]

\* what a step of the walk leaves alone
rest == <<cvars, inputJson, outputJson, targetLanguage, error, isProcessing,
          projectId, phase>>

Data(p)      == frames[p].data

\* the activation at p stands at an entry of its loop
Running(p)   == /\ phase = "walking"
                /\ p \in DOMAIN frames /\ frames[p].st = "run"
                /\ frames[p].i <= Len(Entries(Data(p)).keys)

CurKey(p)    == Entries(Data(p)).keys[frames[p].i]
CurValue(p)  == Entries(Data(p)).vals[frames[p].i]
Pos(p)       == p \o <<CurKey(p)>>
ItemPath(p, key, j) == p \o <<key, ToString(j - 1)>>

\* a loop that stays on the entry it has just handled
StuckIndex(i) == i

\* the for-of loop moves to the next entry
NextIndex(i) == i + 1

\* a walk that treats "original" like any other key
NeverOriginal(key) == FALSE

\* key === "original"
IsOriginal(key) == key = "original"

\* a walk that does not test the processed text
AlwaysTruthy(text) == TRUE

\* if (processedText.text)
IsTruthy(text) == text # <<>>

Visit(pos) ==
    IF pos \in DOMAIN visits
    THEN [visits EXCEPT ![pos] = IF @ < VisitCap THEN @ + 1 ELSE @]
    ELSE (pos :> 1) @@ visits

\* translatedData[key] = v, and on to the next entry
Assigned(f, key, v) ==
    [f EXCEPT !.out = Put(@, key, v), !.i = NextIndex(@), !.st = "run",
              !.txt = <<>>, !.ph = <<>>]

\* a catch block that logs and assigns nothing
CaughtAndDropped(f, key, value) ==
    [f EXCEPT !.i = NextIndex(@), !.st = "run", !.txt = <<>>, !.ph = <<>>]

\* the catch block: translatedData[key] = value
Caught(f, key, value) == Assigned(f, key, value)

\* the elements' promises that Promise.all waits for
ItemFrames(p, key, items) ==
    {ItemPath(p, key, j) : j \in {n \in 1..Len(items) : IsObject(items[n])}}

AllDone(p, key, items) ==
    \A q \in ItemFrames(p, key, items) : frames[q].st = "done"

\* results collected as the promises settle rather than by index
CollectedAsSettled(p, key, items) ==
    LET objs  == {n \in 1..Len(items) : IsObject(items[n])}
        order == SelectSeq(settled, LAMBDA q : q \in ItemFrames(p, key, items))
    IN  Arr([n \in 1..Len(items) |->
                IF n \in objs
                THEN frames[order[Cardinality({m \in objs : m <= n})]].out
                ELSE items[n]])

\* Promise.all: each result at the index of its promise
PromiseAll(p, key, items) ==
    Arr([j \in 1..Len(items) |->
            IF IsObject(items[j]) THEN frames[ItemPath(p, key, j)].out
            ELSE items[j]])

CopyOriginal(p) ==
    /\ Running(p)
    /\ UNCHANGED rest
    /\ IsOriginal(CurKey(p))
    /\ frames' = [frames EXCEPT ![p] = Assigned(@, CurKey(p), CurValue(p))]
    /\ visits' = Visit(Pos(p))
    /\ UNCHANGED <<nextId, settled, calls, outcome>>

\* key "translated", a string, a text left after preprocessText:
\* translateText is invoked; it throws at once or awaits fetch.
TranslateLeaf(p) ==
    /\ Running(p)
    /\ UNCHANGED rest
    /\ ~IsOriginal(CurKey(p))
    /\ CurKey(p) = "translated" /\ CurValue(p).k = "str"
    /\ \E processedText \in {preprocessText(CurValue(p).s, nextId)} :
           /\ IsTruthy(processedText.text)
           /\ nextId' = processedText.id
           /\ calls' = calls \cup {[pos |-> Pos(p), text |-> processedText.text]}
           /\ IF Refused(processedText.text, targetLanguage)
              THEN /\ frames' = [frames EXCEPT
                                   ![p] = Caught(@, CurKey(p), CurValue(p))]
                   /\ outcome' = (Pos(p) :> "fail") @@ outcome
              ELSE /\ frames' = [frames EXCEPT
                                   ![p].st = "call",
                                   ![p].txt = processedText.text,
                                   ![p].ph = processedText.placeholders]
                   /\ UNCHANGED outcome
    /\ visits' = Visit(Pos(p))
    /\ UNCHANGED settled

\* key "translated", a string, nothing left to translate
KeepEmpty(p) ==
    /\ Running(p)
    /\ UNCHANGED rest
    /\ ~IsOriginal(CurKey(p))
    /\ CurKey(p) = "translated" /\ CurValue(p).k = "str"
    /\ \E processedText \in {preprocessText(CurValue(p).s, nextId)} :
           /\ ~IsTruthy(processedText.text)
           /\ nextId' = processedText.id
    /\ frames' = [frames EXCEPT ![p] = Assigned(@, CurKey(p), CurValue(p))]
    /\ visits' = Visit(Pos(p))
    /\ UNCHANGED <<settled, calls, outcome>>

Leaf(p) == CurKey(p) = "translated" /\ CurValue(p).k = "str"

\* Array.isArray(value): every element's callback starts, Promise.all waits
MapSequence(p) ==
    /\ Running(p)
    /\ UNCHANGED rest
    /\ ~IsOriginal(CurKey(p)) /\ ~Leaf(p)
    /\ CurValue(p).k = "arr"
    /\ LET new == ItemFrames(p, CurKey(p), CurValue(p).vals)
       IN  frames' = [q \in DOMAIN frames \cup new |->
                        IF q \in new THEN NewFrame(NodeAt(CurValue(p), <<Last(q)>>))
                        ELSE IF q = p THEN [frames[p] EXCEPT !.st = "all"]
                        ELSE frames[q]]
    /\ visits' = Visit(Pos(p))
    /\ UNCHANGED <<nextId, settled, calls, outcome>>

AwaitAll(p) ==
    /\ phase = "walking"
    /\ UNCHANGED rest
    /\ p \in DOMAIN frames /\ frames[p].st = "all"
    /\ AllDone(p, CurKey(p), CurValue(p).vals)
    /\ frames' = [frames EXCEPT
                    ![p] = Assigned(@, CurKey(p),
                                    PromiseAll(p, CurKey(p), CurValue(p).vals))]
    /\ UNCHANGED <<nextId, settled, calls, outcome, visits>>

\* typeof value === "object" && value !== null, not an array: recurse
Descend(p) ==
    /\ Running(p)
    /\ UNCHANGED rest
    /\ ~IsOriginal(CurKey(p)) /\ ~Leaf(p)
    /\ CurValue(p).k = "obj"
    /\ frames' = [q \in DOMAIN frames \cup {Pos(p)} |->
                    IF q = Pos(p) THEN NewFrame(CurValue(p))
                    ELSE IF q = p THEN [frames[p] EXCEPT !.st = "child"]
                    ELSE frames[q]]
    /\ visits' = Visit(Pos(p))
    /\ UNCHANGED <<nextId, settled, calls, outcome>>

AwaitChild(p) ==
    /\ phase = "walking"
    /\ UNCHANGED rest
    /\ p \in DOMAIN frames /\ frames[p].st = "child"
    /\ frames[Pos(p)].st = "done"
    /\ frames' = [frames EXCEPT
                    ![p] = Assigned(@, CurKey(p), frames[Pos(p)].out)]
    /\ UNCHANGED <<nextId, settled, calls, outcome, visits>>

\* anything else is copied as it is
CopyOther(p) ==
    /\ Running(p)
    /\ UNCHANGED rest
    /\ ~IsOriginal(CurKey(p)) /\ ~Leaf(p)
    /\ ~IsObject(CurValue(p))
    /\ frames' = [frames EXCEPT ![p] = Assigned(@, CurKey(p), CurValue(p))]
    /\ visits' = Visit(Pos(p))
    /\ UNCHANGED <<nextId, settled, calls, outcome>>

\* A continuation is ready to run: fetch settles in a later task, which the
\* event loop starts only once no continuation is ready.
Ready(q) ==
    \/ frames[q].st = "run"
    \/ frames[q].st = "all" /\ AllDone(q, CurKey(q), CurValue(q).vals)
    \/ frames[q].st = "child" /\ frames[Pos(q)].st = "done"

Quiescent == \A q \in DOMAIN frames : ~Ready(q)

\* the awaited translateText returns: the restored text is assigned
TranslationReturns(p, g) ==
    /\ phase = "walking"
    /\ Quiescent
    /\ UNCHANGED rest
    /\ p \in DOMAIN frames /\ frames[p].st = "call"
    /\ \E r \in {translateText(frames[p].txt, targetLanguage, g)} :
           /\ r.ok
           /\ frames' = [frames EXCEPT
                  ![p] = Assigned(@, CurKey(p),
                                  Str(postprocessText(r.text, frames[p].ph)))]
    /\ outcome' = (Pos(p) :> g) @@ outcome
    /\ UNCHANGED <<nextId, settled, calls, visits>>

\* the awaited translateText throws: the catch block keeps the value
TranslationThrows(p, g) ==
    /\ phase = "walking"
    /\ Quiescent
    /\ UNCHANGED rest
    /\ p \in DOMAIN frames /\ frames[p].st = "call"
    /\ ~translateText(frames[p].txt, targetLanguage, g).ok
    /\ frames' = [frames EXCEPT ![p] = Caught(@, CurKey(p), CurValue(p))]
    /\ outcome' = (Pos(p) :> "fail") @@ outcome
    /\ UNCHANGED <<nextId, settled, calls, visits>>

\* the loop is over: return translatedData
Return(p) ==
    /\ phase = "walking"
    /\ UNCHANGED rest
    /\ p \in DOMAIN frames /\ frames[p].st = "run"
    /\ frames[p].i > Len(Entries(Data(p)).keys)
    /\ frames' = [frames EXCEPT ![p].st = "done"]
    /\ settled' = Append(settled, p)
    /\ UNCHANGED <<nextId, calls, outcome, visits>>

(***************************************************************************)
(* processTranslations and the language select.                            *)
(***************************************************************************)
\* two of the options of the select; "es" is the initial one
Languages == {"es", "fr"}

SelectLanguage(l) ==
    /\ phase = "idle"
    /\ l # targetLanguage
    /\ targetLanguage' = l
    /\ UNCHANGED <<cvars, inputJson, outputJson, error, isProcessing, projectId, phase,
                   frames, nextId, settled, calls, outcome, visits>>

\* JSON.parse throws: the catch block reports it and clears the output
ParseFails ==
    /\ phase = "idle"
    /\ inputJson.k = "invalid"
    /\ error' = "SyntaxError"
    /\ outputJson' = NoOutput
    /\ isProcessing' = FALSE
    /\ phase' = "done"
    /\ UNCHANGED <<cvars, inputJson, targetLanguage, projectId, frames, nextId,
                   settled, calls, outcome, visits>>

\* Object.entries(null) throws a TypeError in translateNestedJson
EntriesThrows ==
    /\ phase = "idle"
    /\ inputJson.k = "null"
    /\ error' = "TypeError"
    /\ outputJson' = NoOutput
    /\ isProcessing' = FALSE
    /\ phase' = "done"
    /\ UNCHANGED <<cvars, inputJson, targetLanguage, projectId, frames, nextId,
                   settled, calls, outcome, visits>>

\* the parsed value is handed to translateNestedJson
StartWalk ==
    /\ phase = "idle"
    /\ inputJson.k \notin {"invalid", "null"}
    /\ isProcessing' = TRUE
    /\ error' = "null"
    /\ frames' = (<<>> :> NewFrame(inputJson))
    /\ phase' = "walking"
    /\ UNCHANGED <<cvars, inputJson, outputJson, targetLanguage, projectId, nextId,
                   settled, calls, outcome, visits>>

\* setOutputJson(JSON.stringify(translatedData, null, 2))
Finish ==
    /\ phase = "walking"
    /\ frames[<<>>].st = "done"
    /\ outputJson' = frames[<<>>].out
    /\ isProcessing' = FALSE
    /\ phase' = "done"
    /\ UNCHANGED <<cvars, inputJson, targetLanguage, error, projectId, frames, nextId,
                   settled, calls, outcome, visits>>

(***************************************************************************)
(* The documents the walk is run on.                                       *)
(***************************************************************************)
Plain  == <<"x">>
Marked == <<"x", "<b>", "x", "</b>">>

Translated(t) == Obj(<<"translated">>, <<Str(t)>>)

Records ==
    { Obj(<<"original", "translated">>, <<Str(Plain), Str(Marked)>>),
      Obj(<<"original", "translated">>, <<Str(Plain), Str(<<>>)>>),
      Obj(<<"original", "translated">>, <<Translated(Plain), Str(Plain)>>),
      Obj(<<"original", "n">>, <<Arr(<<Translated(Plain)>>), Num>>) }

Elements ==
    { Obj(<<"original", "translated">>, <<Str(Plain), Str(Marked)>>),
      Translated(<<>>),
      Null,
      Arr(<<Translated(Plain)>>) }

RECURSIVE SeqsUpTo(_, _)
SeqsUpTo(S, n) ==
    IF n = 0 THEN {<<>>}
    ELSE LET P == SeqsUpTo(S, n - 1)
         IN  P \cup {Append(t, a) : t \in {u \in P : Len(u) = n - 1}, a \in S}

Sequences == {Arr(v) : v \in SeqsUpTo(Elements, MaxElems)}

Documents ==
    {Obj(<<"k">>, <<v>>) : v \in Records \cup Sequences \cup {Str(Marked)}}
    \cup {Obj(<<"a", "b">>, <<v, w>>) : v \in Records, w \in Records}
    \cup {Num, Bool, Null, Invalid, Str(<<"x", "x">>)}
    \cup {Arr(<<v>>) : v \in Records}

CodecIdle ==
    /\ s = <<>>
    /\ enc = NoEnc
    /\ reply = <<>>
    /\ restored = <<>>
    /\ cphase = "off"

WalkIdle ==
    /\ outputJson = NoOutput
    /\ targetLanguage = "es"
    /\ error = "null"
    /\ isProcessing = FALSE
    /\ phase = "idle"
    /\ frames = <<>>
    /\ nextId = 1
    /\ settled = <<>>
    /\ calls = {}
    /\ outcome = <<>>
    /\ visits = <<>>

Init ==
    /\ CodecIdle
    /\ inputJson \in Documents
    /\ projectId \in {"", "project"}
    /\ WalkIdle

Next ==
    \/ \E l \in Languages : SelectLanguage(l)
    \/ ParseFails
    \/ EntriesThrows
    \/ StartWalk
    \/ \E p \in DOMAIN frames : CopyOriginal(p)
    \/ \E p \in DOMAIN frames : TranslateLeaf(p)
    \/ \E p \in DOMAIN frames : KeepEmpty(p)
    \/ \E p \in DOMAIN frames : MapSequence(p)
    \/ \E p \in DOMAIN frames : AwaitAll(p)
    \/ \E p \in DOMAIN frames : Descend(p)
    \/ \E p \in DOMAIN frames : AwaitChild(p)
    \/ \E p \in DOMAIN frames : CopyOther(p)
    \/ \E p \in DOMAIN frames, g \in FetchOutcomes : TranslationReturns(p, g)
    \/ \E p \in DOMAIN frames, g \in FetchOutcomes : TranslationThrows(p, g)
    \/ \E p \in DOMAIN frames : Return(p)
    \/ Finish

Spec == Init /\ [][Next]_vars

FairSpec == Init /\ [][Next]_vars /\ WF_vars(Next)

(***************************************************************************)
(* The codec on its own: encode, a translation step that returns the text  *)
(* intact, decode.                                                         *)
(***************************************************************************)
RECURSIVE StringsUpTo(_)
StringsUpTo(n) ==
    IF n = 0 THEN {<<>>}
    ELSE LET P == StringsUpTo(n - 1)
         IN  P \cup {Append(t, a) : t \in {u \in P : Len(u) = n - 1}, a \in Alphabet}

CodecInit ==
    /\ s \in StringsUpTo(MaxLen)
    /\ enc = NoEnc
    /\ reply = <<>>
    /\ restored = <<>>
    /\ cphase = "init"
    /\ inputJson = NoOutput
    /\ projectId = ""
    /\ WalkIdle

Encode ==
    /\ cphase = "init"
    /\ enc' = preprocessText(s, 1)
    /\ cphase' = "encoded"
    /\ UNCHANGED <<s, reply, restored, wvars>>

Echo ==
    /\ cphase = "encoded"
    /\ reply' = enc.text
    /\ cphase' = "translated"
    /\ UNCHANGED <<s, enc, restored, wvars>>

Decode ==
    /\ cphase = "translated"
    /\ restored' = postprocessText(reply, enc.placeholders)
    /\ cphase' = "restored"
    /\ UNCHANGED <<s, enc, reply, wvars>>

CodecNext == Encode \/ Echo \/ Decode

SpecCodec == CodecInit /\ [][CodecNext]_vars

(***************************************************************************)
(* Properties.                                                             *)
(***************************************************************************)
\* every position of a value: the keys and indices from its root
RECURSIVE AllPaths(_)
AllPaths(v) ==
    {<<>>} \cup
    (IF IsObject(v)
     THEN UNION {{<<Entries(v).keys[j]>> \o q : q \in AllPaths(Entries(v).vals[j])} :
                 j \in 1..Len(Entries(v).keys)}
     ELSE {})

\* the positions of the input that a mapping holds under `key`
KeyedPaths(key) ==
    {q \in AllPaths(inputJson) :
        q # <<>> /\ Last(q) = key /\ NodeAt(inputJson, Front(q)).k = "obj"}

Done     == phase = "done"
Produced == phase = "done" /\ outputJson # NoOutput

\* same kind at every position, same keys at every mapping, same length at
\* every sequence
RECURSIVE SameShape(_, _)
SameShape(a, b) ==
    /\ a.k = b.k
    /\ Len(a.vals) = Len(b.vals)
    /\ a.k = "obj" =>
          /\ {a.keys[j] : j \in 1..Len(a.keys)} = {b.keys[j] : j \in 1..Len(b.keys)}
          /\ \A j \in 1..Len(a.keys) :
                 SameShape(a.vals[j], Child(b, a.keys[j]))
    /\ a.k = "arr" => \A j \in 1..Len(a.vals) : SameShape(a.vals[j], b.vals[j])

\* C1: whenever translateNestedJson has run on a mapping, its result has the
\* input's key set at every mapping, its length at every sequence and its
\* mapping/sequence/scalar kind at every position.
C1_ShapePreserved ==
    (Done /\ inputJson.k = "obj") => SameShape(inputJson, outputJson)

\* what a leaf holds once its call has settled with outcome g
Landed(value, g) ==
    CASE g = "intact" -> Str(<<targetLanguage>> \o value.s)
      [] g = "lost"   -> Str(<<targetLanguage>>)
      [] OTHER        -> value

\* C2: a leaf whose call failed keeps its input value, every leaf whose call
\* succeeded carries its translated value, and the failure neither aborts
\* the run nor reaches the caller: no error is reported and a document is
\* produced.
C2_FailureIsolated ==
    /\ \A pos \in DOMAIN outcome : error = "null"
    /\ Done /\ calls # {} =>
          /\ outputJson # NoOutput
          /\ DOMAIN outcome = {c.pos : c \in calls}
          /\ \A pos \in DOMAIN outcome :
                /\ HasPath(outputJson, pos)
                /\ NodeAt(outputJson, pos)
                       = Landed(NodeAt(inputJson, pos), outcome[pos])

\* C2 witness: a finished run in which one leaf failed and another, of the
\* same document, was translated.
C2_Witness ==
    /\ Done /\ outputJson # NoOutput
    /\ \E a \in DOMAIN outcome, b \in DOMAIN outcome :
          /\ outcome[a] = "fail" /\ outcome[b] = "intact"
          /\ NodeAt(outputJson, a) = NodeAt(inputJson, a)
          /\ NodeAt(outputJson, b) # NodeAt(inputJson, b)

\* C4: no translation call is ever issued for a position inside the value of
\* an "original" key, and in the produced document every "original" of an
\* input mapping holds the input's value.
C4_OriginalUntouched ==
    /\ \A c \in calls : \A n \in 1..Len(c.pos) : c.pos[n] # "original"
    /\ Produced =>
          \A q \in KeyedPaths("original") :
              /\ HasPath(outputJson, q)
              /\ NodeAt(outputJson, q) = NodeAt(inputJson, q)

\* C4 witness: a document was produced from an input whose "original" is a
\* structure holding a "translated" string, while another leaf was sent out.
C4_Witness ==
    /\ Produced /\ calls # {}
    /\ \E q \in KeyedPaths("original") :
          /\ IsObject(NodeAt(inputJson, q))
          /\ \E r \in KeyedPaths("translated") :
                 Len(r) > Len(q) /\ SubSeq(r, 1, Len(q)) = q
          /\ q \in DOMAIN visits

EmptyLeaves ==
    {q \in KeyedPaths("translated") : NodeAt(inputJson, q) = Str(<<>>)}

\* C7: for a leaf "translated": "" translateText is never invoked, and the
\* produced document holds "" there.
C7_EmptyLeafKept ==
    \A q \in EmptyLeaves :
        /\ \A c \in calls : c.pos # q
        /\ Produced => HasPath(outputJson, q) /\ NodeAt(outputJson, q) = Str(<<>>)

\* C7 witness: a finished run that handled an empty leaf and sent another
\* leaf out.
C7_Witness ==
    /\ Produced /\ calls # {}
    /\ \E q \in EmptyLeaves : q \in DOMAIN visits

\* The document a run yields when the leaf at each position ends as outcome
\* says, computed by one sequential pass over the value v found at p.
RECURSIVE Rebuild(_, _)
Rebuild(v, p) ==
    LET e == Entries(v)
        one(j) ==
            LET key == e.keys[j]
                val == e.vals[j]
            IN  IF key = "original" THEN val
                ELSE IF key = "translated" /\ val.k = "str"
                THEN IF val.s = <<>> THEN val
                     ELSE Landed(val, outcome[p \o <<key>>])
                ELSE IF val.k = "arr"
                THEN Arr([n \in 1..Len(val.vals) |->
                            IF IsObject(val.vals[n])
                            THEN Rebuild(val.vals[n], ItemPath(p, key, n))
                            ELSE val.vals[n]])
                ELSE IF val.k = "obj" THEN Rebuild(val, p \o <<key>>)
                ELSE val
    IN  Obj(e.keys, [j \in 1..Len(e.keys) |-> one(j)])

\* C8: whatever the order in which the calls in flight settle, the produced
\* document is the one in which each leaf holds the result of its own call.
C8_PositionsKept == Produced => outputJson = Rebuild(inputJson, <<>>)

\* C8 witness: two elements of one sequence, each with a call in flight; the
\* second settled and returned before the first, and their results differ.
C8_Witness ==
    /\ Produced
    /\ \E a \in 1..Len(settled), b \in 1..Len(settled) :
          /\ a < b
          /\ settled[a] = <<"k", "1">> /\ settled[b] = <<"k", "0">>
    /\ <<"k", "0", "translated">> \in DOMAIN outcome
    /\ <<"k", "1", "translated">> \in DOMAIN outcome
    /\ outcome[<<"k", "0", "translated">>] = "lost"
    /\ outcome[<<"k", "1", "translated">>] = "intact"

\* C5: with the capability misconfigured, a run that has issued translation
\* calls ends with an error reported and no document.
C5_MisconfigurationSurfaces ==
    (Done /\ projectId = "" /\ inputJson.k = "obj" /\ calls # {})
        => (outputJson = NoOutput /\ error # "null")

\* C6: an input that is no JSON, or is JSON but no object, ends with an
\* error reported, no translation call and no document.
C6_BadInputRejected ==
    (Done /\ inputJson.k # "obj")
        => (error # "null" /\ calls = {} /\ outputJson = NoOutput)

\* C10: a run that has started its walk ends with a document, and the loop
\* body runs at most once for each position.
C10_Terminates ==
    /\ (phase = "walking") ~> Produced
    /\ [](\A q \in DOMAIN visits : visits[q] <= 1)

\* C10 witness: a finished walk through nested activations with calls.
C10_Witness ==
    /\ Produced /\ calls # {}
    /\ Len(settled) >= 4
    /\ \A q \in DOMAIN visits : visits[q] = 1

\* the fragments of t: the matches of one pattern, found left to right
RECURSIVE MatchesFrom(_, _, _)
MatchesFrom(t, lits, pos) ==
    IF pos > Len(t) THEN {}
    ELSE LET e == MatchEnd(t, lits, pos)
         IN  IF e = 0 THEN MatchesFrom(t, lits, pos + 1)
             ELSE {<<pos, e>>} \cup MatchesFrom(t, lits, e + 1)

Fragments(t) ==
    MatchesFrom(t, BoldPattern, 1) \cup MatchesFrom(t, ItalicPattern, 1)
    \cup MatchesFrom(t, LinkPattern, 1) \cup MatchesFrom(t, VarPattern, 1)

NonOverlapping(t) ==
    \A m \in Fragments(t), n \in Fragments(t) :
        m # n => (m[2] < n[1] \/ n[2] < m[1])

\* C3: for a string whose fragments do not overlap, decoding the encoded
\* text with the recorded placeholders gives the string back.
C3_RoundTrip ==
    (cphase = "restored" /\ NonOverlapping(s)) => restored = s

Orders(n) ==
    {f \in [1..n -> 1..n] : \A a \in 1..n, b \in 1..n : f[a] = f[b] => a = b}

HoldsToken(t, placeholders) ==
    \E n \in 1..Len(placeholders) : IndexOf(t, Token(placeholders[n][1]), 1) # 0

\* C9: applied to the text preprocessText produced, the pairs of its
\* placeholder map restore the same string in every order, and the order
\* postprocessText uses leaves no token in it.
C9_OrderIrrelevant ==
    cphase = "translated" =>
        /\ \A order \in Orders(Len(enc.placeholders)) :
               RestoreFrom(reply, enc.placeholders, order, 1)
                   = postprocessText(reply, enc.placeholders)
        /\ ~HoldsToken(postprocessText(reply, enc.placeholders), enc.placeholders)

====
